---- MODULE Spec2Model ----
(***************************************************************************)
(* Lecture-Notes-Generator: the resumable segmentation-and-transcription   *)
(* loop of continue_transcription (src/continue_transcription.py) and the  *)
(* text filter of clean_lecture_notes (src/clean_lecture_notes.py).        *)
(*                                                                         *)
(* Representation.                                                         *)
(*  - A file name or text is a sequence of tokens.  The token              *)
(*    "_transcript" stands for that literal substring; every other token   *)
(*    is a piece of text that holds no part of it.                         *)
(*  - Times are integers in milliseconds.  A value the code holds in       *)
(*    seconds (x / 1000, a float) is held here as the same quantity in     *)
(*    thousandths of a second.                                             *)
(*  - Python's None for a timestamp is Null; an absent file is the empty   *)
(*    sequence, a present one a sequence of one record.                    *)
(***************************************************************************)
EXTENDS Integers, Sequences, FiniteSets, TLC

VARIABLES
    \* the directories on disk
    audio_files,        \* AUDIO_DIR.glob("*.wav"), in discovery order (stems)
    audio_len,          \* stem -> len(AudioSegment.from_file(audio_path)), ms
    segment_dirs,       \* stem -> the artifacts of <stem>_segments/
    transcripts,        \* stem -> <stem>_transcript.json, absent or one record
    log_file,           \* continued_transcription_log.json, absent or one record
    \* one invocation of continue_transcription
    whisper_model,      \* the capability handed in: "timestamps" or "plain"
    pc,                 \* "idle" | "loop" | "transcribe"
    ret,                \* what the last invocation returned
    untranscribed,      \* untranscribed_files
    total_files,
    file_idx,           \* position of the outer for loop (1-based)
    results,
    success_count,
    segments,
    seg_idx,            \* position of the segment loop (1-based)
    full_transcript,
    transcript_result,  \* absent or the record built at line 235
    \* history of the run, for stating the properties
    returned,           \* what whisper_model gave for each segment so far
    reused,             \* the current segment list came from existing artifacts
    split_segments,     \* stem -> the segment list the last fresh split appended
    last,               \* the step taken last
    \* clean_lecture_notes
    content,            \* the text read from input_file_path
    cleaned             \* absent or the text written to output_file_path

vars == <<audio_files, audio_len, segment_dirs, transcripts, log_file,
          whisper_model, pc, ret, untranscribed, total_files, file_idx,
          results, success_count, segments, seg_idx, full_transcript,
          transcript_result, returned, reused, split_segments, last,
          content, cleaned>>

diskVars == <<audio_files, audio_len, segment_dirs, transcripts, log_file>>
cleanVars == <<content, cleaned>>

----------------------------------------------------------------------------
(* Bounds of the exploration *)

MaxFullSegs == 1
MaxChunks == 2
Remainders == {0, 5000}

(* Program constants *)

segment_length_ms == 30000
Null == 0 - 1

Min(a, b) == IF a <= b THEN a ELSE b

\* the recording "lec1" of the specification's example: 65000 ms
ExampleDuration == 2 * segment_length_ms + 5000

Durations ==
    { q * segment_length_ms + r : q \in 0..MaxFullSegs, r \in Remainders }
        \cup { ExampleDuration }

ShortDurations == { r \in Remainders : r > 0 }

SingleListing == << <<"lec1">> >>
BatchListing == << <<"a">>, <<"a", "_transcript">>, <<"b">> >>

Range(s) == { s[i] : i \in 1..Len(s) }

----------------------------------------------------------------------------
(* Pure helpers of continue_transcription *)

\* f"{video_name}_transcript" : the stem of a transcript artifact
TranscriptStem(stem) == stem \o <<"_transcript">>

\* path.stem.replace("_transcript", "") : every occurrence is removed
StemReplace(s) == SelectSeq(s, LAMBDA t : t # "_transcript")

\* existing_transcripts (line 76)
ExistingTranscripts(tr) ==
    { StemReplace(TranscriptStem(st)) : st \in { x \in DOMAIN tr : tr[x] # <<>> } }

\* untranscribed_files (line 79)
Untranscribed(files, tr) ==
    SelectSeq(files, LAMBDA st : st \notin ExistingTranscripts(tr))

NumSegmentsFloor(len) == len \div segment_length_ms

\* num_segments (line 166)
NumSegments(len) ==
    (len \div segment_length_ms)
        + (IF len % segment_length_ms > 0 THEN 1 ELSE 0)

\* the segment list of a fresh split (lines 169-182)
FreshSegments(stem, len) ==
    [ i \in 1..NumSegments(len) |->
        LET start_ms == (i - 1) * segment_length_ms
            end_ms   == Min(i * segment_length_ms, len)
        IN  [ path |-> <<stem, i - 1>>, start_ms |-> start_ms,
              end_ms |-> end_ms, duration_ms |-> end_ms - start_ms ] ]

\* the artifact segment.export writes for one entry of the list
Artifact(seg) == [ index |-> seg.path[2], length |-> seg.end_ms - seg.start_ms ]

\* sorted(existing_segments, key = the number after the last '_') (line 129)
RECURSIVE SortByIndex(_)
SortByIndex(S) ==
    IF S = {} THEN <<>>
    ELSE LET first == CHOOSE a \in S : \A b \in S : a.index <= b.index
         IN  <<first>> \o SortByIndex(S \ {first})

\* the segment list rebuilt from existing artifacts (lines 132-152);
\* probe[i] says whether AudioSegment.from_file(segment_path) succeeded
ReusedSegments(stem, arts, probe) ==
    LET sorted_segments == SortByIndex(arts)
    IN  [ i \in 1..Len(sorted_segments) |->
            LET start_ms    == (i - 1) * segment_length_ms
                duration_ms == IF probe[i] THEN sorted_segments[i].length
                               ELSE segment_length_ms
            IN  [ path |-> <<stem, sorted_segments[i].index>>,
                  start_ms |-> start_ms, end_ms |-> start_ms + duration_ms,
                  duration_ms |-> duration_ms ] ]

RECURSIVE JoinNoSeparator(_)
JoinNoSeparator(texts) ==
    IF texts = <<>> THEN <<>>
    ELSE texts[1] \o JoinNoSeparator(Tail(texts))

\* " ".join(texts) (line 240)
RECURSIVE Join(_)
Join(texts) ==
    IF texts = <<>> THEN <<>>
    ELSE IF Len(texts) = 1 THEN texts[1]
    ELSE texts[1] \o <<" ">> \o Join(Tail(texts))

\* len(s.split()) (line 250): the maximal runs of non-blank tokens
WordCount(s) ==
    Cardinality({ i \in 1..Len(s) : s[i] # " " /\ (i = 1 \/ s[i - 1] = " ") })

ChunksOfLocal(seg, result) ==
    IF result.kind = "chunks"
    THEN [ k \in 1..Len(result.chunks) |->
            LET ts == result.chunks[k].timestamp
            IN  [ text |-> result.chunks[k].text,
                  start_time |-> IF ts[1] # Null THEN ts[1] ELSE seg.start_ms,
                  end_time |-> IF ts[2] # Null THEN ts[2] ELSE Null ] ]
    ELSE << [ text |-> result.text, start_time |-> seg.start_ms,
              end_time |-> seg.start_ms + seg.duration_ms ] >>

\* the chunks appended for one result of whisper_model (lines 205-225)
ChunksOf(seg, result) ==
    LET segment_start_sec == seg.start_ms
    IN  IF result.kind = "chunks"
        THEN [ k \in 1..Len(result.chunks) |->
                LET ts == result.chunks[k].timestamp
                IN  [ text |-> result.chunks[k].text,
                      start_time |-> IF ts[1] # Null
                                     THEN segment_start_sec + ts[1]
                                     ELSE segment_start_sec,
                      end_time |-> IF ts[2] # Null
                                   THEN segment_start_sec + ts[2]
                                   ELSE Null ] ]
        ELSE << [ text |-> result.text,
                  start_time |-> segment_start_sec,
                  end_time |-> segment_start_sec + seg.duration_ms ] >>

DurationSecondsIfTranscribed(segs) ==
    IF segs # <<>> /\ full_transcript # <<>> THEN segs[Len(segs)].end_ms ELSE 0

\* "duration_seconds" (line 238)
DurationSeconds(segs) == IF segs # <<>> THEN segs[Len(segs)].end_ms ELSE 0

\* transcript_result (lines 235-241); VIDEO_DIR holds no video, so
\* video_path falls back to the audio path (line 116)
TranscriptResult(stem, segs, chunks) ==
    [ video_name |-> stem,
      video_path |-> stem,
      duration_seconds |-> DurationSeconds(segs),
      transcript |-> chunks,
      transcript_text |-> Join([ k \in 1..Len(chunks) |-> chunks[k].text ]) ]

----------------------------------------------------------------------------
(* The external speech-to-text capability: what one call may give back *)

Word(i, j) == "s" \o ToString(i) \o "c" \o ToString(j)

\* [start, end] of a chunk, local to the segment; either may be None
Stamps(len) == { <<Null, len>>, <<len, Null>> }

ChunkSeqs(len) ==
    UNION { [ 1..n -> Stamps(len) ] : n \in 1..MaxChunks }

Results(model, i, len) ==
    { [ kind |-> "raise", text |-> <<>>, chunks |-> <<>> ],
      [ kind |-> "text", text |-> <<Word(i, 0)>>, chunks |-> <<>> ] }
    \cup
    (IF model = "timestamps"
     THEN { [ kind |-> "chunks", text |-> <<>>,
              chunks |-> [ k \in 1..Len(cs) |->
                            [ text |-> <<Word(i, k)>>, timestamp |-> cs[k] ] ] ]
            : cs \in ChunkSeqs(len) }
     ELSE {})

----------------------------------------------------------------------------
(* Initial states *)

IdleRun ==
    /\ pc = "idle"
    /\ ret = "none"
    /\ untranscribed = <<>>
    /\ total_files = 0
    /\ file_idx = 1
    /\ results = <<>>
    /\ success_count = 0
    /\ segments = <<>>
    /\ seg_idx = 1
    /\ full_transcript = <<>>
    /\ transcript_result = <<>>
    /\ returned = <<>>
    /\ reused = FALSE
    /\ last = "Init"

EmptyDisk ==
    /\ segment_dirs = [ st \in Range(audio_files) |-> {} ]
    /\ transcripts = [ st \in Range(audio_files) |-> <<>> ]
    /\ split_segments = [ st \in Range(audio_files) |-> <<>> ]
    /\ log_file = <<>>

NoClean ==
    /\ content = <<>>
    /\ cleaned = <<>>

InitSingle ==
    /\ audio_files = SingleListing
    /\ audio_len \in [ Range(SingleListing) -> Durations ]
    /\ whisper_model = "timestamps"

InitBatch ==
    /\ audio_files = BatchListing
    /\ audio_len \in [ Range(BatchListing) -> ShortDurations ]
    /\ whisper_model = "plain"

Init ==
    /\ (InitSingle \/ InitBatch)
    /\ EmptyDisk
    /\ IdleRun
    /\ NoClean

----------------------------------------------------------------------------
(* continue_transcription *)

cur == untranscribed[file_idx]

\* the length of the audio stored at a segment path
ArtifactLength(path) ==
    (CHOOSE a \in segment_dirs[path[1]] : a.index = path[2]).length

\* the segment loop goes on to the next segment, also after an exception
\* (lines 193, 227-229)
AfterSegmentAbort(idx, n, result) ==
    IF result.kind = "raise" THEN n + 1 ELSE idx + 1

AfterSegment(idx, n, result) == idx + 1

\* lines 66-70: no model was handed in and load_whisper_model returned None
LoadFail ==
    /\ last' = "LoadFail"
    /\ pc = "idle"
    /\ ret' = "error"
    /\ UNCHANGED <<diskVars, cleanVars, whisper_model, pc, untranscribed,
                   total_files, file_idx, results, success_count, segments,
                   seg_idx, full_transcript, transcript_result, returned,
                   reused, split_segments>>

\* lines 72-90: list, filter, and either return at once or enter the loop
Start ==
    /\ last' = "Start"
    /\ pc = "idle"
    /\ LET pending == Untranscribed(audio_files, transcripts)
       IN  /\ untranscribed' = pending
           /\ total_files' = Len(pending)
           /\ pc' = IF Len(pending) = 0 THEN "idle" ELSE "loop"
           /\ ret' = IF Len(pending) = 0 THEN "message" ELSE "none"
    /\ file_idx' = 1
    /\ results' = <<>>
    /\ success_count' = 0
    /\ segments' = <<>>
    /\ seg_idx' = 1
    /\ full_transcript' = <<>>
    /\ transcript_result' = <<>>
    /\ returned' = <<>>
    /\ reused' = FALSE
    /\ UNCHANGED <<diskVars, cleanVars, whisper_model, split_segments>>

InLoop == pc = "loop" /\ file_idx <= Len(untranscribed)

\* lines 127-154: artifacts exist, the list is rebuilt from them
ReuseSegments ==
    /\ last' = "ReuseSegments"
    /\ InLoop
    /\ segment_dirs[cur] # {}
    /\ \E probe \in [ 1..Cardinality(segment_dirs[cur]) -> BOOLEAN ] :
         segments' = ReusedSegments(cur, segment_dirs[cur], probe)
    /\ reused' = TRUE
    /\ pc' = "transcribe"
    /\ seg_idx' = 1
    /\ full_transcript' = <<>>
    /\ returned' = <<>>
    /\ UNCHANGED <<diskVars, cleanVars, whisper_model, ret, untranscribed,
                   total_files, file_idx, results, success_count,
                   transcript_result, split_segments>>

\* lines 156-184: no artifact exists, the audio is loaded and split
SegmentFresh ==
    /\ last' = "SegmentFresh"
    /\ InLoop
    /\ segment_dirs[cur] = {}
    /\ LET segs == FreshSegments(cur, audio_len[cur])
       IN  /\ segments' = segs
           /\ segment_dirs' = [ segment_dirs EXCEPT
                                  ![cur] = { Artifact(segs[i]) : i \in 1..Len(segs) } ]
           /\ split_segments' = [ split_segments EXCEPT ![cur] = segs ]
    /\ reused' = FALSE
    /\ pc' = "transcribe"
    /\ seg_idx' = 1
    /\ full_transcript' = <<>>
    /\ returned' = <<>>
    /\ UNCHANGED <<audio_files, audio_len, transcripts, log_file, cleanVars,
                   whisper_model, ret, untranscribed, total_files, file_idx,
                   results, success_count, transcript_result>>

\* lines 159-161, 186-188: AudioSegment.from_file(audio_path) raises
SegmentReadError ==
    /\ last' = "SegmentReadError"
    /\ InLoop
    /\ segment_dirs[cur] = {}
    /\ segments' = <<>>
    /\ reused' = FALSE
    /\ file_idx' = file_idx + 1
    /\ UNCHANGED <<diskVars, cleanVars, whisper_model, pc, ret, untranscribed,
                   total_files, results, success_count, seg_idx,
                   full_transcript, transcript_result, returned,
                   split_segments>>

\* lines 169-188: segment.export raises after n segments were written
SegmentExportError ==
    /\ last' = "SegmentExportError"
    /\ InLoop
    /\ segment_dirs[cur] = {}
    /\ \E n \in 0..(NumSegments(audio_len[cur]) - 1) :
         LET segs == SubSeq(FreshSegments(cur, audio_len[cur]), 1, n)
         IN  /\ segments' = segs
             /\ segment_dirs' = [ segment_dirs EXCEPT
                                    ![cur] = { Artifact(segs[i]) : i \in 1..n } ]
             /\ split_segments' = [ split_segments EXCEPT ![cur] = segs ]
    /\ reused' = FALSE
    /\ file_idx' = file_idx + 1
    /\ UNCHANGED <<audio_files, audio_len, transcripts, log_file, cleanVars,
                   whisper_model, pc, ret, untranscribed, total_files,
                   results, success_count, seg_idx, full_transcript,
                   transcript_result, returned>>

\* lines 193-229: one pass of the segment loop
TranscribeSegment ==
    /\ last' = "TranscribeSegment"
    /\ pc = "transcribe"
    /\ seg_idx <= Len(segments)
    /\ \E result \in Results(whisper_model, seg_idx,
                             ArtifactLength(segments[seg_idx].path)) :
         /\ returned' = Append(returned, result)
         /\ full_transcript' =
              IF result.kind = "raise" THEN full_transcript
              ELSE full_transcript \o ChunksOf(segments[seg_idx], result)
         /\ seg_idx' = AfterSegment(seg_idx, Len(segments), result)
    /\ UNCHANGED <<diskVars, cleanVars, whisper_model, pc, ret, untranscribed,
                   total_files, file_idx, results, success_count, segments,
                   transcript_result, reused, split_segments>>

\* lines 231-253: the transcript is written and the recording counted
SaveTranscript ==
    /\ last' = "SaveTranscript"
    /\ pc = "transcribe"
    /\ seg_idx > Len(segments)
    /\ LET tr == TranscriptResult(cur, segments, full_transcript)
       IN  /\ transcript_result' = <<tr>>
           /\ transcripts' = [ transcripts EXCEPT ![cur] = <<tr>> ]
           /\ results' = Append(results,
                 [ audio |-> cur, transcript |-> TranscriptStem(cur),
                   word_count |-> WordCount(tr.transcript_text),
                   status |-> "success" ])
    /\ success_count' = success_count + 1
    /\ file_idx' = file_idx + 1
    /\ pc' = "loop"
    /\ UNCHANGED <<audio_files, audio_len, segment_dirs, log_file, cleanVars,
                   whisper_model, ret, untranscribed, total_files, segments,
                   seg_idx, full_transcript, returned, reused, split_segments>>

\* lines 263-278: the run log is written and returned
Finish ==
    /\ last' = "Finish"
    /\ pc = "loop"
    /\ file_idx > Len(untranscribed)
    /\ log_file' = << [ total_files |-> total_files,
                        success_count |-> success_count,
                        results |-> results ] >>
    /\ ret' = "log"
    /\ pc' = "idle"
    /\ UNCHANGED <<audio_files, audio_len, segment_dirs, transcripts,
                   cleanVars, whisper_model, untranscribed, total_files,
                   file_idx, results, success_count, segments, seg_idx,
                   full_transcript, transcript_result, returned, reused,
                   split_segments>>

\* the process is stopped mid-run (no handler catches KeyboardInterrupt):
\* what is on disk stays, the run's variables are gone, no log is written
Interrupt ==
    /\ last' = "Interrupt"
    /\ pc \in {"loop", "transcribe"}
    /\ pc' = "idle"
    /\ ret' = "none"
    /\ untranscribed' = <<>>
    /\ total_files' = 0
    /\ file_idx' = 1
    /\ results' = <<>>
    /\ success_count' = 0
    /\ segments' = <<>>
    /\ seg_idx' = 1
    /\ full_transcript' = <<>>
    /\ transcript_result' = <<>>
    /\ returned' = <<>>
    /\ reused' = FALSE
    /\ UNCHANGED <<diskVars, cleanVars, whisper_model, split_segments>>

Next ==
    \/ LoadFail
    \/ Start
    \/ ReuseSegments
    \/ SegmentFresh
    \/ SegmentReadError
    \/ SegmentExportError
    \/ TranscribeSegment
    \/ SaveTranscript
    \/ Finish
    \/ Interrupt

Spec == Init /\ [][Next]_vars

----------------------------------------------------------------------------
(* clean_lecture_notes.  A text is a sequence of tokens: "#", " ", "\n",   *)
(* the markers "<think>" and "</think>", and words.                        *)

MaxTextLen == 4

OpenMark == "<think>"
CloseMark == "</think>"
CleanTokens == { "#", " ", "\n", OpenMark, CloseMark, "secret" }

IsSpace(t) == t \in { " ", "\n" }

\* the first test of section 8 and two variants of it
ExampleInput ==
    << "#", " ", OpenMark, "\n", "secret", "\n", CloseMark, "\n",
       "Visible text", "\n", "\n", "\n", "\n", "More text" >>
ExampleHeading3 ==
    << "#", "#", "#", " ", OpenMark, "\n", "secret", "\n", CloseMark, "\n",
       "Visible text" >>
ExampleInline ==
    << OpenMark, "secret", CloseMark, "\n", "\n", "\n", "More text" >>

BoundedTexts == UNION { [ 1..n -> CleanTokens ] : n \in 0..MaxTextLen }

CleanInputs ==
    BoundedTexts \cup { ExampleInput, ExampleHeading3, ExampleInline }

\* where a match of  ^prefix\s*$  (re.MULTILINE) that starts at i ends: the
\* position after it, or 0 when there is none.  \s* is greedy and gives back
\* until $ holds, that is at the end of the text or before a "\n".
LineMatchEnd(prefix, s, i) ==
    LET p == i + Len(prefix)
    IN  IF /\ (i = 1 \/ s[i - 1] = "\n")
           /\ p - 1 <= Len(s)
           /\ SubSeq(s, i, p - 1) = prefix
        THEN LET ends == { e \in p..(Len(s) + 1) :
                             /\ \A k \in p..(e - 1) : IsSpace(s[k])
                             /\ (e = Len(s) + 1 \/ s[e] = "\n") }
             IN  IF ends = {} THEN 0
                 ELSE CHOOSE e \in ends : \A f \in ends : f <= e
        ELSE 0

\* re.sub(r'^prefix\s*$', '', s, flags=re.MULTILINE), scanning from i
RECURSIVE SubLineFrom(_, _, _)
SubLineFrom(prefix, s, i) ==
    IF i > Len(s) THEN <<>>
    ELSE LET e == LineMatchEnd(prefix, s, i)
         IN  IF e # 0 THEN SubLineFrom(prefix, s, e)
             ELSE <<s[i]>> \o SubLineFrom(prefix, s, i + 1)

SubLine(prefix, s) == SubLineFrom(prefix, s, 1)

\* re.sub(r'<think>.*?</think>', '', s, flags=re.DOTALL), scanning from i
RECURSIVE RemoveBlocksFrom(_, _)
RemoveBlocksFrom(s, i) ==
    IF i > Len(s) THEN <<>>
    ELSE LET closes == { k \in (i + 1)..Len(s) : s[k] = CloseMark }
         IN  IF s[i] = OpenMark /\ closes # {}
             THEN RemoveBlocksFrom(s,
                      (CHOOSE k \in closes : \A j \in closes : k <= j) + 1)
             ELSE <<s[i]>> \o RemoveBlocksFrom(s, i + 1)

RemoveBlocks(s) == RemoveBlocksFrom(s, 1)

\* s.replace('<think>', '').replace('</think>', '')
RemoveTags(s) == SelectSeq(s, LAMBDA t : t # OpenMark /\ t # CloseMark)

\* re.sub(r'\n{3,}', '\n\n', s), scanning from i
RECURSIVE CollapseFrom(_, _)
CollapseFrom(s, i) ==
    IF i > Len(s) THEN <<>>
    ELSE LET stops == { k \in i..(Len(s) + 1) : k = Len(s) + 1 \/ s[k] # "\n" }
             stop  == CHOOSE k \in stops : \A j \in stops : k <= j
         IN  IF stop - i >= 3
             THEN << "\n", "\n" >> \o CollapseFrom(s, stop)
             ELSE <<s[i]>> \o CollapseFrom(s, i + 1)

CollapseNewlines(s) == CollapseFrom(s, 1)

\* lines 22-33, in the order of the code
CleanText(s) ==
    LET c1 == SubLine(<< "#", " ", OpenMark >>, s)
        c2 == SubLine(<< "#", "#", "#", " ", OpenMark >>, c1)
        c3 == SubLine(<< CloseMark >>, c2)
        c4 == RemoveBlocks(c3)
        c5 == RemoveTags(c4)
    IN  CollapseNewlines(c5)

InitClean ==
    /\ content \in CleanInputs
    /\ cleaned = <<>>
    /\ audio_files = SingleListing
    /\ audio_len = [ st \in Range(SingleListing) |-> 0 ]
    /\ whisper_model = "plain"
    /\ EmptyDisk
    /\ IdleRun

\* lines 16-44: read, filter, write
CleanLectureNotes ==
    /\ cleaned = <<>>
    /\ cleaned' = << CleanText(content) >>
    /\ last' = "CleanLectureNotes"
    /\ UNCHANGED <<diskVars, content, whisper_model, pc, ret, untranscribed,
                   total_files, file_idx, results, success_count, segments,
                   seg_idx, full_transcript, transcript_result, returned,
                   reused, split_segments>>

NextClean == CleanLectureNotes

SpecClean == InitClean /\ [][NextClean]_vars

----------------------------------------------------------------------------
(* Properties *)

W == segment_length_ms

Triples(segs) ==
    [ i \in 1..Len(segs) |->
        << segs[i].start_ms, segs[i].end_ms, segs[i].duration_ms >> ]

\* the texts a result carries, in its own order
TextsOf(result) ==
    IF result.kind = "raise" THEN <<>>
    ELSE IF result.kind = "text" THEN << result.text >>
    ELSE [ k \in 1..Len(result.chunks) |-> result.chunks[k].text ]

RECURSIVE Flatten(_)
Flatten(ss) == IF ss = <<>> THEN <<>> ELSE ss[1] \o Flatten(Tail(ss))

\* the texts of the results that did not raise, in segment order
SurvivingTexts(rs) == Flatten([ k \in 1..Len(rs) |-> TextsOf(rs[k]) ])

\* for each surviving chunk, the index of the segment it came from
Origins(rs) ==
    Flatten([ k \in 1..Len(rs) |-> [ j \in 1..Len(TextsOf(rs[k])) |-> k ] ])

TextsIn(chunks) == [ k \in 1..Len(chunks) |-> chunks[k].text ]

Raised(rs) == { k \in 1..Len(rs) : rs[k].kind = "raise" }

\* C1: a fresh split of a recording of D ms gives ceil(D/W) segments,
\* segment i from i*W to min((i+1)*W, D); they tile [0,D) without gap or
\* overlap, duration_ms is end - start, and only the last may be shorter
\* than W.
C1_FreshSplitTiles ==
    (last = "SegmentFresh") =>
        LET D == audio_len[cur]
            n == Len(segments)
        IN  /\ n * W >= D
            /\ (n - 1) * W < D \/ (n = 0 /\ D = 0)
            /\ \A i \in 1..n :
                 /\ segments[i].start_ms = (i - 1) * W
                 /\ segments[i].end_ms = (IF i * W <= D THEN i * W ELSE D)
                 /\ segments[i].duration_ms
                      = segments[i].end_ms - segments[i].start_ms
                 /\ segments[i].duration_ms > 0
                 /\ segments[i].duration_ms <= W
                 /\ i < n => segments[i].duration_ms = W
                 /\ i < n => segments[i + 1].start_ms = segments[i].end_ms
            /\ n > 0 => segments[1].start_ms = 0 /\ segments[n].end_ms = D
            /\ segment_dirs[cur]
                 = { [ index |-> i - 1, length |-> segments[i].duration_ms ]
                     : i \in 1..n }

C1_Witness ==
    /\ last = "SegmentFresh"
    /\ audio_len[cur] = ExampleDuration
    /\ Triples(segments)
         = << <<0, 30000, 30000>>, <<30000, 60000, 30000>>,
              <<60000, 65000, 5000>> >>

\* C2: a segment list rebuilt from the artifacts of an earlier invocation
\* has the count and the (start_ms, end_ms, duration_ms) of the list that
\* invocation built, whatever the probes of the artifacts give.
C2_ReuseSameSegments ==
    (last = "ReuseSegments") =>
        Triples(segments) = Triples(split_segments[cur])

\* C3: the pending list is exactly the audio recordings without a
\* transcript artifact, in discovery order.
C3_ResumeFilter ==
    (last = "Start") =>
        untranscribed
            = SelectSeq(audio_files, LAMBDA st : transcripts[st] = <<>>)

\* C4: every recording the loop has passed has its entry in the results,
\* and the run log's total_files is the number of its result entries.
C4_ErrorRecorded ==
    /\ pc = "loop" =>
         /\ Len(results) = file_idx - 1
         /\ \A k \in 1..Len(results) : results[k].audio = untranscribed[k]
    /\ last = "Finish" =>
         Len(log_file[1].results) = log_file[1].total_files

\* C5: the stitched transcript holds no chunk of a segment whose call
\* raised and every chunk of the others, in segment order and then chunk
\* order, and every segment is tried whatever the earlier ones did.
C5_FailureIsolation ==
    /\ pc = "transcribe" =>
         /\ Len(returned) = seg_idx - 1
         /\ seg_idx <= Len(segments) + 1
         /\ TextsIn(full_transcript) = SurvivingTexts(returned)
    /\ last = "SaveTranscript" =>
         /\ Len(returned) = Len(segments)
         /\ TextsIn(transcript_result[1].transcript)
              = SurvivingTexts(returned)

C5_Witness ==
    /\ last = "SaveTranscript"
    /\ Len(returned) = 3
    /\ returned[1].kind = "chunks" /\ Len(returned[1].chunks) = 2
    /\ returned[2].kind = "raise"
    /\ returned[3].kind = "text"
    /\ Len(transcript_result[1].transcript) = 3

\* the local start of a chunk lies in [0, length of the segment's audio]
StartInRange(k, ts) ==
    ts[1] = Null \/ (0 <= ts[1] /\ ts[1] <= ArtifactLength(segments[k].path))

\* the local starts that are present never decrease within a result
PresentStartsSorted(result) ==
    \A a, b \in 1..Len(result.chunks) :
        (a < b /\ result.chunks[a].timestamp[1] # Null
               /\ result.chunks[b].timestamp[1] # Null)
            => result.chunks[a].timestamp[1] <= result.chunks[b].timestamp[1]

\* the same, a missing start counted as the start of the segment (0)
StartOrZero(ts) == IF ts[1] = Null THEN 0 ELSE ts[1]
StartsSortedNullAsZero(result) ==
    \A a, b \in 1..Len(result.chunks) :
        a < b => StartOrZero(result.chunks[a].timestamp)
                   <= StartOrZero(result.chunks[b].timestamp)

Stitching == pc = "transcribe" \/ last = "SaveTranscript"

StartTimesSorted ==
    \A a, b \in 1..Len(full_transcript) :
        a < b => full_transcript[a].start_time <= full_transcript[b].start_time

StartTimesAfterSegmentStart ==
    /\ Len(Origins(returned)) = Len(full_transcript)
    /\ \A a \in 1..Len(full_transcript) :
         full_transcript[a].start_time
            >= segments[Origins(returned)[a]].start_ms

\* C6 as stated: start times never decrease and lie at or after the start
\* of their segment, whenever each result's local starts are in range and
\* non-decreasing, or missing.
C6_StartTimesSortedOrNull ==
    (/\ Stitching
     /\ \A k \in 1..Len(returned) :
          /\ \A c \in 1..Len(returned[k].chunks) :
               StartInRange(k, returned[k].chunks[c].timestamp)
          /\ PresentStartsSorted(returned[k]))
        => (StartTimesSorted /\ StartTimesAfterSegmentStart)

\* C6 amended: every chunk starts at or after the start of its segment, a
\* missing local start included; and start times never decrease whenever each
\* result's local starts are in range and non-decreasing with a missing
\* start counted as 0.
C6_StartTimesSorted ==
    Stitching =>
        /\ StartTimesAfterSegmentStart
        /\ (\A k \in 1..Len(returned) :
              /\ \A c \in 1..Len(returned[k].chunks) :
                   StartInRange(k, returned[k].chunks[c].timestamp)
              /\ StartsSortedNullAsZero(returned[k]))
             => StartTimesSorted

C6_Witness ==
    /\ last = "SaveTranscript"
    /\ reused
    /\ Len(returned) = 2
    /\ returned[1].kind = "chunks" /\ Len(returned[1].chunks) = 2
    /\ returned[1].chunks[1].timestamp[1] = Null
    /\ returned[1].chunks[2].timestamp[1] = W
    /\ returned[2].kind = "chunks"
    /\ returned[2].chunks[1].timestamp[1] = Null
    /\ full_transcript[3].start_time = W
    /\ StartTimesSorted

\* where chunk k starts in the joined text, counted from 0
RECURSIVE Offset(_, _)
Offset(texts, k) ==
    IF k = 1 THEN 0 ELSE Offset(texts, k - 1) + Len(texts[k - 1]) + 1

\* the text is the chunk texts in order with one blank between neighbours
TextIsSpaceJoined(tr) ==
    LET texts == TextsIn(tr.transcript)
        n     == Len(texts)
        L     == tr.transcript_text
    IN  /\ Len(L) = (IF n = 0 THEN 0 ELSE Offset(texts, n) + Len(texts[n]))
        /\ \A k \in 1..n :
             /\ SubSeq(L, Offset(texts, k) + 1, Offset(texts, k) + Len(texts[k]))
                  = texts[k]
             /\ k > 1 => L[Offset(texts, k)] = " "

\* the recording whose transcript the last step wrote
saved == untranscribed[file_idx - 1]

\* C7: every region from an opening to its closing marker is removed with
\* the text inside it, also with the markers alone on their lines and the
\* opening one behind heading markup, and no run of 3 or more newlines
\* is left; the example of section 8 gives "\nVisible text\n\nMore text".
InRegion(s, i) ==
    \E j \in 1..(i - 1), k \in (i + 1)..Len(s) :
        /\ s[j] = OpenMark
        /\ s[k] = CloseMark
        /\ \A m \in (j + 1)..(k - 1) : s[m] # CloseMark

C7_ThinkRegionsRemoved ==
    cleaned # <<>> =>
        /\ content = ExampleInput =>
             cleaned[1] = << "\n", "Visible text", "\n", "\n", "More text" >>
        /\ (\A i \in 1..Len(content) :
              content[i] = "secret" => InRegion(content, i))
             => \A i \in 1..Len(cleaned[1]) : cleaned[1][i] # "secret"
        /\ \A i \in 1..(Len(cleaned[1]) - 2) :
             ~(cleaned[1][i] = "\n" /\ cleaned[1][i + 1] = "\n"
                                   /\ cleaned[1][i + 2] = "\n")

C8_WitnessAllFailed ==
    /\ last = "SaveTranscript"
    /\ Len(segments) = 3
    /\ Raised(returned) = {1, 2, 3}
    /\ transcripts[saved][1].transcript = <<>>

\* C9 as stated: duration_seconds is the last segment's end when some
\* segment was transcribed, and 0 when none was.
C9_ZeroWhenNoneSucceeded ==
    last = "SaveTranscript" =>
        LET d == transcripts[saved][1].duration_seconds
        IN  IF Raised(returned) # 1..Len(returned)
            THEN d = segments[Len(segments)].end_ms
            ELSE d = 0

\* C9 amended: duration_seconds is the last segment's end whenever the
\* recording has a segment, whether or not any was transcribed, and 0 only
\* when the segment list is empty.
C9_DurationFromSegments ==
    last = "SaveTranscript" =>
        LET d == transcripts[saved][1].duration_seconds
            n == Len(segments)
        IN  /\ n > 0 => d = segments[n].end_ms /\ d > 0
            /\ n = 0 => d = 0
            /\ d = 0 => n = 0

C9_Witness ==
    /\ last = "SaveTranscript"
    /\ Len(segments) = 2
    /\ Raised(returned) = {1, 2}
    /\ transcripts[saved][1].duration_seconds = W + 5000

\* C10: a recording with a transcript is never processed again and its
\* artifacts never change; every recording without one is pending in each
\* later invocation; with none pending the invocation returns the message
\* and writes no log.
C10_ResumeAcrossRuns ==
    [][ /\ \A st \in DOMAIN transcripts :
             transcripts[st] # <<>> =>
                 /\ transcripts'[st] = transcripts[st]
                 /\ segment_dirs'[st] = segment_dirs[st]
        /\ last' = "Start" =>
             /\ untranscribed'
                  = SelectSeq(audio_files, LAMBDA st : transcripts[st] = <<>>)
             /\ (\A st \in DOMAIN transcripts : transcripts[st] # <<>>)
                  => (ret' = "message" /\ pc' = "idle" /\ log_file' = log_file)
      ]_vars

====
